---- MODULE Spec2Model ----
\* Bbot, the virtual user gateway of src/Bbot.py: the handler on_pubmsg (the
\* router), the registry active_users, the VirtualUser sessions with their
\* sockets, and the _monitor_presence thread of every session.
\*
\* Time is counted in watchdog poll intervals (time.sleep(10), line 52): one
\* Tick is one interval.  The program reads the clock only to set
\* last_activity and to compare now - last_activity with the threshold of
\* line 55, so the state keeps idle[s] = now - last_activity of every session
\* (saturating at the threshold, and only as long as the monitor of s can
\* still read it) instead of the two timestamps; the
\* assignment last_activity = now is idle[s] = 0.  The threshold, 30 poll
\* intervals in the source (300 s / 10 s), is the bound InactivePolls: polls
\* that find a smaller gap all do the same.  Waits shorter than one interval
\* (lines 29, 33, 68, 139) are steps during which the clock may or may not
\* tick.
EXTENDS Integers, Sequences, FiniteSets, TLC

\* ---------------------------------------------------------------- bounds
MaxDispatch == 2      \* on_pubmsg events handled in one run
InactivePolls == 2    \* poll intervals in the inactivity threshold (line 55)
MaxFaults == 2        \* socket calls the network fails in one run

\* ---------------------------------------------------------------- constants
NickLen == 9          \* [:9], line 13

\* ---------------------------------------------------------------- strings
\* A string is a sequence of one-character strings.
WordChars == {"a", "b", "o", "t", "B", "x"}

IsWord(c) == c \in WordChars

LowerChar(c) == IF c = "B" THEN "b" ELSE c

Lower(u) == [i \in DOMAIN u |-> LowerChar(u[i])]

Take(u, n) == IF Len(u) <= n THEN u ELSE SubSeq(u, 1, n)

\* re.sub(r'[^\w]', '', username)[:9]
Sanitize(u) == Take(SelectSeq(u, IsWord), NickLen)

Nick9 == <<"a", "a", "a", "a", "a", "a", "a", "a", "a">>
IdPlain == Nick9
IdMarked == <<"a", "!">> \o Nick9
IdSelf == <<"B", "b", "o", "t">>
IdSelfMarked == <<"b", "b", "o", "t", "!">>
IdNoWord == <<"!">>
OwnName == <<"b", "b", "o", "t">>

Identities == {IdPlain, IdMarked, IdSelf, IdSelfMarked, IdNoWord}

\* The identities the source channel carries in one run: two that share a
\* nickname, the gateway's own name plain and marked, or one without any
\* word character.
Upstreams == {{IdPlain, IdMarked}, {IdSelf, IdSelfMarked}, {IdNoWord}}
Texts == {"hello", "again"}

\* ---------------------------------------------------------------- state
\* An event constructs at most one VirtualUser (line 146); the run of
\* InitActive starts with one more.
MaxSessions == MaxDispatch + 1
Sessions == 1..MaxSessions
Router == 0
Threads == {Router} \cup Sessions   \* thread s >= 1 is _monitor_presence of s

VARIABLES
    upstream,       \* the identities that speak on #room1 in this run
    budget,         \* the number of events they send in this run
    texts,          \* the message texts they send in this run
    faults,         \* the socket calls the network can still fail in this run
    idle,           \* now - last_activity of every VirtualUser, in poll intervals
    active_users,   \* Bbot.active_users: identity -> session, 0 = no entry
    nsess,          \* VirtualUser objects constructed so far
    vu,             \* the fields of every VirtualUser
    sock,           \* the socket every VirtualUser created, and its wire
    pc,             \* the position of the router and of every monitor thread
    wd,             \* every monitor thread: sleep elapsed, times started
    rt,             \* the locals of on_pubmsg and _create_new_user
    dno,            \* on_pubmsg events handled so far
    cleanups        \* history: the _cleanup calls made on every session

vars == <<upstream, budget, texts, faults, idle, active_users, nsess, vu, sock, pc, wd, rt, dno, cleanups>>

\* identity is history: the username argument the object was constructed with
NoUser == [identity |-> <<>>, username |-> <<>>, message |-> "",
           irc_socket |-> FALSE, active |-> FALSE]

NoSock == [created |-> FALSE, connected |-> FALSE, closes |-> 0, wire |-> <<>>]

\* d is the number of the on_pubmsg event the line was sent for, 0 for QUIT
Line(cmd, arg, d) == [cmd |-> cmd, arg |-> arg, d |-> d]

\* result, opens, second, raised and old are history of the call in progress:
\* its outcome as logged, the sockets it created, whether it is the first
\* event for a session created less than the threshold ago, whether a
\* socket call of it raised, and the session whose reuse send raised
NoCall == [username |-> <<>>, message |-> "", user |-> 0, ret |-> "",
           result |-> "none", opens |-> 0, second |-> FALSE, raised |-> FALSE,
           old |-> 0]

Start ==
    /\ idle = [s \in Sessions |-> 0]
    /\ active_users = [u \in Identities |-> 0]
    /\ nsess = 0
    /\ vu = [s \in Sessions |-> NoUser]
    /\ sock = [s \in Sessions |-> NoSock]
    /\ pc = [t \in Threads |-> IF t = Router THEN "idle" ELSE "off"]
    /\ wd = [s \in Sessions |-> [due |-> FALSE, started |-> 0]]
    /\ rt = NoCall
    /\ dno = 0
    /\ cleanups = [s \in Sessions |-> [begun |-> 0, ended |-> 0, lapped |-> FALSE]]

\* Nothing has happened yet: the registry is empty (line 86) and the
\* handler waits for the first event.
Init ==
    /\ upstream \in Upstreams
    /\ budget = MaxDispatch
    /\ texts = Texts
    /\ faults = MaxFaults
    /\ Start

\* One identity speaks and repeats one text.
InitOne ==
    /\ upstream = {IdPlain}
    /\ budget = MaxDispatch
    /\ texts = {"hello"}
    /\ faults = MaxFaults
    /\ Start

Handshake(name, m, d) ==
    <<Line("NICK", name, d), Line("USER", name, d), Line("JOIN", "#room2", d),
      Line("PRIVMSG", m, d)>>

\* The first event of IdPlain has been handled without an error: its session
\* is registered, its monitor sleeps, the handler waits for the next event.
\* From here on the network fails no socket call.
InitActive ==
    /\ upstream = {IdPlain}
    /\ budget = MaxDispatch + 1
    /\ texts = Texts
    /\ faults = 0
    /\ idle = [s \in Sessions |-> 0]
    /\ active_users = [u \in Identities |-> IF u = IdPlain THEN 1 ELSE 0]
    /\ nsess = 1
    /\ vu = [s \in Sessions |->
               IF s = 1 THEN [identity |-> IdPlain, username |-> Sanitize(IdPlain),
                              message |-> "hello", irc_socket |-> TRUE,
                              active |-> TRUE]
                        ELSE NoUser]
    /\ sock = [s \in Sessions |->
                 IF s = 1 THEN [created |-> TRUE, connected |-> TRUE, closes |-> 0,
                                wire |-> Handshake(Sanitize(IdPlain), "hello", 1)]
                          ELSE NoSock]
    /\ pc = [t \in Threads |-> IF t = Router THEN "idle"
                                ELSE IF t = 1 THEN "w_sleep" ELSE "off"]
    /\ wd = [s \in Sessions |-> [due |-> FALSE, started |-> IF s = 1 THEN 1 ELSE 0]]
    /\ rt = NoCall
    /\ dno = 1
    /\ cleanups = [s \in Sessions |-> [begun |-> 0, ended |-> 0, lapped |-> FALSE]]

\* ---------------------------------------------------------------- socket
\* socket.send can succeed only on a connected socket nobody closed
CanSend(s) == vu[s].irc_socket /\ sock[s].connected /\ sock[s].closes = 0

\* a socket call raises: always when it cannot succeed, else when the network
\* fails it
Raises(ok) ==
    IF ok THEN faults > 0 /\ faults' = faults - 1
          ELSE UNCHANGED faults

Emit(s, cmd, arg, d) ==
    sock' = [sock EXCEPT ![s].wire = Append(@, Line(cmd, arg, d))]

Goto(t, to) == pc' = [pc EXCEPT ![t] = to]

\* a call of s._cleanup() starts: lapped when another call is still running
BeginCleanup(s) ==
    cleanups' = [cleanups EXCEPT ![s] =
        [begun |-> @.begun + 1, ended |-> @.ended,
         lapped |-> @.lapped \/ @.begun > @.ended]]

\* ---------------------------------------------------------------- _cleanup
\* Run by the router (on rt.user) or by the monitor thread of a session.
Target(t) == IF t = Router THEN rt.user ELSE t

AfterCleanup(t) == IF t = Router THEN rt.ret ELSE "done"

\* line 65: if self.irc_socket:
CleanupTest(t) ==
    /\ pc[t] = "c_test"
    /\ Goto(t, IF vu[Target(t)].irc_socket THEN "c_quit" ELSE "c_inactive")
    /\ UNCHANGED <<cleanups, upstream, budget, texts, faults, idle, active_users, nsess, vu, sock, wd, rt, dno>>

\* line 67: self.irc_socket.send("QUIT :Inactive"); any exception goes to
\* "except: pass" and then to the finally clause
CleanupQuit(t) ==
    /\ pc[t] = "c_quit"
    /\ \/ /\ CanSend(Target(t))
          /\ Emit(Target(t), "QUIT", "Inactive", 0)
          /\ Goto(t, "c_sleep")
          /\ UNCHANGED faults
       \/ /\ Raises(CanSend(Target(t)))
          /\ Goto(t, "c_finally")
          /\ UNCHANGED sock
    /\ UNCHANGED <<cleanups, upstream, budget, texts, idle, active_users, nsess, vu, wd, rt, dno>>

\* line 68: time.sleep(0.5)
CleanupSleep(t) ==
    /\ pc[t] = "c_sleep"
    /\ Goto(t, "c_close")
    /\ UNCHANGED <<cleanups, upstream, budget, texts, faults, idle, active_users, nsess, vu, sock, wd, rt, dno>>

\* line 69: self.irc_socket.close(); AttributeError when the field is None
CleanupClose(t) ==
    /\ pc[t] = "c_close"
    /\ IF vu[Target(t)].irc_socket
          THEN sock' = [sock EXCEPT ![Target(t)].closes = @ + 1]
          ELSE UNCHANGED sock
    /\ Goto(t, "c_finally")
    /\ UNCHANGED <<cleanups, upstream, budget, texts, faults, idle, active_users, nsess, vu, wd, rt, dno>>

\* line 73: finally: self.irc_socket = None
CleanupFinally(t) ==
    /\ pc[t] = "c_finally"
    /\ vu' = [vu EXCEPT ![Target(t)].irc_socket = FALSE]
    /\ Goto(t, "c_inactive")
    /\ UNCHANGED <<cleanups, upstream, budget, texts, faults, idle, active_users, nsess, sock, wd, rt, dno>>

\* line 74: self.active = False
CleanupInactive(t) ==
    /\ pc[t] = "c_inactive"
    /\ vu' = [vu EXCEPT ![Target(t)].active = FALSE]
    /\ cleanups' = [cleanups EXCEPT ![Target(t)].ended = @ + 1]
    /\ Goto(t, AfterCleanup(t))
    /\ UNCHANGED <<upstream, budget, texts, faults, idle, active_users, nsess, sock, wd, rt, dno>>

_cleanup(t) ==
    \/ CleanupTest(t)
    \/ CleanupQuit(t)
    \/ CleanupSleep(t)
    \/ CleanupClose(t)
    \/ CleanupFinally(t)
    \/ CleanupInactive(t)

\* ---------------------------------------------------------------- on_pubmsg
\* line 124 with the test of the flag inverted
RoutableInactive(u) == active_users[u] # 0 /\ ~ vu[active_users[u]].active

\* line 124: username in self.active_users and self.active_users[username].active
Routable(u) == active_users[u] # 0 /\ vu[active_users[u]].active

IsPrivmsg(l) == l.cmd = "PRIVMSG"
IsQuit(l) == l.cmd = "QUIT"
IsNick(l) == l.cmd = "NICK"
Privmsgs(s) == SelectSeq(sock[s].wire, IsPrivmsg)
Quits(s) == SelectSeq(sock[s].wire, IsQuit)

\* the event is the first one for the session registered for u, and that
\* session was created less than the inactivity threshold ago
Second(u) ==
    /\ active_users[u] # 0
    /\ Len(Privmsgs(active_users[u])) = 1
    /\ idle[active_users[u]] < InactivePolls

\* lines 116-124: the tagged event (username, message) arrives; the own-name
\* test and the registry lookup
OnPubmsg(u, m) ==
    /\ pc[Router] = "idle"
    /\ dno < budget
    /\ dno' = dno + 1
    /\ IF Lower(u) = OwnName
          THEN /\ rt' = [NoCall EXCEPT !.username = u, !.message = m,
                                       !.result = "dropped"]
               /\ UNCHANGED pc
          ELSE IF Routable(u)
          THEN /\ rt' = [NoCall EXCEPT !.username = u, !.message = m,
                                       !.user = active_users[u],
                                       !.result = "pending", !.second = Second(u)]
               /\ Goto(Router, "reuse_send")
          ELSE /\ rt' = [NoCall EXCEPT !.username = u, !.message = m,
                                       !.result = "pending", !.second = Second(u)]
               /\ Goto(Router, "new_user")
    /\ UNCHANGED <<cleanups, upstream, budget, texts, faults, idle, active_users, nsess, vu, sock, wd>>

\* line 128 sending the message the session was constructed with
ReuseSendStored ==
    /\ pc[Router] = "reuse_send"
    /\ \/ /\ CanSend(rt.user)
          /\ Emit(rt.user, "PRIVMSG", vu[rt.user].message, dno)
          /\ Goto(Router, "reuse_touch")
          /\ UNCHANGED <<rt, cleanups, faults>>
       \/ /\ Raises(CanSend(rt.user))
          /\ rt' = [rt EXCEPT !.ret = "del_user", !.raised = TRUE, !.old = rt.user]
          /\ BeginCleanup(rt.user)
          /\ Goto(Router, "c_test")
          /\ UNCHANGED sock
    /\ UNCHANGED <<upstream, budget, texts, idle, active_users, nsess, vu, wd, dno>>

\* line 128 with a send that raises after the line went out
ReuseSendDup ==
    /\ pc[Router] = "reuse_send"
    /\ \/ /\ CanSend(rt.user)
          /\ Emit(rt.user, "PRIVMSG", rt.message, dno)
          /\ Goto(Router, "reuse_touch")
          /\ UNCHANGED <<rt, cleanups, faults>>
       \/ /\ Raises(CanSend(rt.user))
          /\ rt' = [rt EXCEPT !.ret = "del_user", !.raised = TRUE, !.old = rt.user]
          /\ BeginCleanup(rt.user)
          /\ Goto(Router, "c_test")
          /\ IF CanSend(rt.user)
                THEN Emit(rt.user, "PRIVMSG", rt.message, dno)
                ELSE UNCHANGED sock
    /\ UNCHANGED <<upstream, budget, texts, idle, active_users, nsess, vu, wd, dno>>

\* line 128: user.irc_socket.send(PRIVMSG); an exception (a failed send, or
\* AttributeError on a None socket) enters the handler of lines 131-133
ReuseSend ==
    /\ pc[Router] = "reuse_send"
    /\ \/ /\ CanSend(rt.user)
          /\ Emit(rt.user, "PRIVMSG", rt.message, dno)
          /\ Goto(Router, "reuse_touch")
          /\ UNCHANGED <<rt, cleanups, faults>>
       \/ /\ Raises(CanSend(rt.user))
          /\ rt' = [rt EXCEPT !.ret = "del_user", !.raised = TRUE, !.old = rt.user]
          /\ BeginCleanup(rt.user)
          /\ Goto(Router, "c_test")
          /\ UNCHANGED sock
    /\ UNCHANGED <<upstream, budget, texts, idle, active_users, nsess, vu, wd, dno>>

\* lines 129-130: user.last_activity = now
ReuseTouch ==
    /\ pc[Router] = "reuse_touch"
    /\ idle' = [idle EXCEPT ![rt.user] = 0]
    /\ rt' = [rt EXCEPT !.result = "delivered"]
    /\ Goto(Router, "rate_limit")
    /\ UNCHANGED <<cleanups, upstream, budget, texts, faults, active_users, nsess, vu, sock, wd, dno>>

\* line 134 left out
DelUserKept ==
    /\ pc[Router] = "del_user"
    /\ Goto(Router, "new_user")
    /\ UNCHANGED <<cleanups, upstream, budget, texts, faults, idle, active_users, nsess, vu, sock, wd, rt, dno>>

\* line 134: del self.active_users[username]
DelUser ==
    /\ pc[Router] = "del_user"
    /\ active_users' = [active_users EXCEPT ![rt.username] = 0]
    /\ Goto(Router, "new_user")
    /\ UNCHANGED <<cleanups, upstream, budget, texts, faults, idle, nsess, vu, sock, wd, rt, dno>>

\* line 139: time.sleep(self.rate_limit), then the handler returns
RateLimit ==
    /\ pc[Router] = "rate_limit"
    /\ Goto(Router, "idle")
    /\ rt' = NoCall
    /\ UNCHANGED <<cleanups, upstream, budget, texts, faults, idle, active_users, nsess, vu, sock, wd, dno>>

\* ---------------------------------------------------------------- VirtualUser
\* line 146 and lines 12-18: user = VirtualUser(username, message)
NewUser ==
    /\ pc[Router] = "new_user"
    /\ nsess < MaxSessions
    /\ nsess' = nsess + 1
    /\ vu' = [vu EXCEPT ![nsess + 1] =
                 [identity |-> rt.username, username |-> Sanitize(rt.username),
                  message |-> rt.message, irc_socket |-> FALSE, active |-> TRUE]]
    /\ idle' = [idle EXCEPT ![nsess + 1] = 0]
    /\ rt' = [rt EXCEPT !.user = nsess + 1, !.ret = "send_false"]
    /\ Goto(Router, "s_socket")
    /\ UNCHANGED <<cleanups, upstream, budget, texts, faults, active_users, sock, wd, dno>>

\* line 23: self.irc_socket = socket.socket(...)
SendSocket ==
    /\ pc[Router] = "s_socket"
    /\ vu' = [vu EXCEPT ![rt.user].irc_socket = TRUE]
    /\ sock' = [sock EXCEPT ![rt.user].created = TRUE]
    /\ rt' = [rt EXCEPT !.opens = @ + 1]
    /\ Goto(Router, "s_connect")
    /\ UNCHANGED <<cleanups, upstream, budget, texts, faults, idle, active_users, nsess, wd, dno>>

\* line 24: connect; refused -> the handler of lines 43-46
SendConnect ==
    /\ pc[Router] = "s_connect"
    /\ \/ /\ sock' = [sock EXCEPT ![rt.user].connected = TRUE]
          /\ Goto(Router, "s_nick")
          /\ UNCHANGED <<cleanups, rt, faults>>
       \/ /\ Raises(TRUE)
          /\ rt' = [rt EXCEPT !.raised = TRUE]
          /\ BeginCleanup(rt.user)
          /\ Goto(Router, "c_test")
          /\ UNCHANGED sock
    /\ UNCHANGED <<upstream, budget, texts, idle, active_users, nsess, vu, wd, dno>>

\* one socket.send of VirtualUser.send: on success the line is on the wire,
\* on an exception the handler of lines 43-46 calls _cleanup
SendLine(at, cmd, arg, to) ==
    /\ pc[Router] = at
    /\ \/ /\ CanSend(rt.user)
          /\ Emit(rt.user, cmd, arg, dno)
          /\ Goto(Router, to)
          /\ UNCHANGED <<cleanups, rt, faults>>
       \/ /\ Raises(CanSend(rt.user))
          /\ rt' = [rt EXCEPT !.raised = TRUE]
          /\ BeginCleanup(rt.user)
          /\ Goto(Router, "c_test")
          /\ UNCHANGED sock
    /\ UNCHANGED <<upstream, budget, texts, idle, active_users, nsess, vu, wd, dno>>

\* a time.sleep of VirtualUser.send
Settle(at, to) ==
    /\ pc[Router] = at
    /\ Goto(Router, to)
    /\ UNCHANGED <<cleanups, upstream, budget, texts, faults, idle, active_users, nsess, vu, sock, wd, rt, dno>>

\* line 28 followed by line 32 at once, without the wait of line 29
SendUserNoSettle == SendLine("s_user", "USER", vu[rt.user].username, "s_join")

SendNick == SendLine("s_nick", "NICK", vu[rt.user].username, "s_user")       \* line 27
SendUser == SendLine("s_user", "USER", vu[rt.user].username, "s_settle1")    \* line 28
SendSettle1 == Settle("s_settle1", "s_join")                                  \* line 29
SendJoin == SendLine("s_join", "JOIN", "#room2", "s_settle2")                \* line 32
SendSettle2 == Settle("s_settle2", "s_privmsg")                               \* line 33
SendPrivmsg == SendLine("s_privmsg", "PRIVMSG", vu[rt.user].message, "s_touch") \* line 34

\* line 35: self.last_activity = now
SendTouch ==
    /\ pc[Router] = "s_touch"
    /\ idle' = [idle EXCEPT ![rt.user] = 0]
    /\ Goto(Router, "s_thread")
    /\ UNCHANGED <<cleanups, upstream, budget, texts, faults, active_users, nsess, vu, sock, wd, rt, dno>>

\* line 38 starting a second monitor thread for the session
SendThreadTwice ==
    /\ pc[Router] = "s_thread"
    /\ pc' = [pc EXCEPT ![Router] = "register", ![rt.user] = "w_sleep"]
    /\ wd' = [wd EXCEPT ![rt.user] = [due |-> FALSE, started |-> @.started + 2]]
    /\ UNCHANGED <<cleanups, upstream, budget, texts, faults, idle, active_users, nsess, vu, sock, rt, dno>>

\* line 38: Thread(target=self._monitor_presence).start(); return True
SendThread ==
    /\ pc[Router] = "s_thread"
    /\ pc' = [pc EXCEPT ![Router] = "register", ![rt.user] = "w_sleep"]
    /\ wd' = [wd EXCEPT ![rt.user] = [due |-> FALSE, started |-> @.started + 1]]
    /\ UNCHANGED <<cleanups, upstream, budget, texts, faults, idle, active_users, nsess, vu, sock, rt, dno>>

\* lines 147-149: if user.send(): self.active_users[username] = user
Register ==
    /\ pc[Router] = "register"
    /\ active_users' = [active_users EXCEPT ![rt.username] = rt.user]
    /\ rt' = [rt EXCEPT !.result = "delivered_new"]
    /\ Goto(Router, "rate_limit")
    /\ UNCHANGED <<cleanups, upstream, budget, texts, faults, idle, nsess, vu, sock, wd, dno>>

\* lines 150-151 returning from the handler without line 139
SendFalseReturn ==
    /\ pc[Router] = "send_false"
    /\ rt' = [rt EXCEPT !.result = "failed"]
    /\ Goto(Router, "idle")
    /\ UNCHANGED <<cleanups, upstream, budget, texts, faults, idle, active_users, nsess, vu, sock, wd, dno>>

\* lines 46, 150-151: send returned False
SendFalse ==
    /\ pc[Router] = "send_false"
    /\ rt' = [rt EXCEPT !.result = "failed"]
    /\ Goto(Router, "rate_limit")
    /\ UNCHANGED <<cleanups, upstream, budget, texts, faults, idle, active_users, nsess, vu, sock, wd, dno>>

\* ---------------------------------------------------------------- _monitor_presence
\* line 55 with > in place of >=
MonitorPollLate(s) ==
    /\ pc[s] = "w_sleep"
    /\ wd[s].due
    /\ IF idle[s] > InactivePolls
          THEN Goto(s, "c_test") /\ BeginCleanup(s)
          ELSE UNCHANGED <<pc, cleanups>>
    /\ wd' = [wd EXCEPT ![s].due = FALSE]
    /\ UNCHANGED <<upstream, budget, texts, faults, idle, active_users, nsess, vu, sock, rt, dno>>

\* lines 52-58: after time.sleep(10), compare now - last_activity to 300
MonitorPoll(s) ==
    /\ pc[s] = "w_sleep"
    /\ wd[s].due
    /\ IF idle[s] >= InactivePolls
          THEN Goto(s, "c_test") /\ BeginCleanup(s)
          ELSE UNCHANGED <<pc, cleanups>>
    /\ wd' = [wd EXCEPT ![s].due = FALSE]
    /\ UNCHANGED <<upstream, budget, texts, faults, idle, active_users, nsess, vu, sock, rt, dno>>

Min(a, b) == IF a <= b THEN a ELSE b

\* last_activity of s is read by the monitor of s alone (line 53), and every
\* monitor is started right after line 35 has set it: idle[s] is kept while
\* that monitor can still read it
Watched(s) == pc[s] = "w_sleep" \/ (pc[Router] = "s_thread" /\ rt.user = s)

\* one poll interval passes: now - last_activity grows for every watched
\* session, and every sleeping monitor has slept its 10 s
Tick ==
    /\ idle' = [s \in Sessions |->
                  IF Watched(s) THEN Min(idle[s] + 1, InactivePolls) ELSE idle[s]]
    /\ wd' = [s \in Sessions |-> [wd[s] EXCEPT !.due = @ \/ pc[s] = "w_sleep"]]
    /\ UNCHANGED <<cleanups, upstream, budget, texts, faults, active_users, nsess, vu, sock, pc, rt, dno>>

\* ---------------------------------------------------------------- system
\* every step but the one that needs a failed VirtualUser.send
NextSent ==
    \/ \E u \in upstream, m \in texts : OnPubmsg(u, m)
    \/ ReuseSend
    \/ ReuseTouch
    \/ DelUser
    \/ NewUser
    \/ SendSocket
    \/ SendConnect
    \/ SendNick
    \/ SendUser
    \/ SendSettle1
    \/ SendJoin
    \/ SendSettle2
    \/ SendPrivmsg
    \/ SendTouch
    \/ SendThread
    \/ Register
    \/ RateLimit
    \/ \E t \in Threads : _cleanup(t)
    \/ \E s \in Sessions : MonitorPoll(s)
    \/ Tick

Next ==
    \/ NextSent
    \/ SendFalse

Spec == Init /\ [][Next]_vars

SpecOne == InitOne /\ [][Next]_vars

\* The monitor threads keep being scheduled and the clock keeps advancing:
\* as long as the clock can tick, a monitor can poll or a monitor's _cleanup
\* can take its next step, one of them does.  Nothing is assumed of the
\* router or of the events.
Fairness ==
    WF_vars(Tick \/ \E s \in Sessions : MonitorPoll(s) \/ _cleanup(s))

SpecOneFair == InitOne /\ [][Next]_vars /\ Fairness

\* without a network fault send never returns False
SpecReuse == InitActive /\ [][NextSent]_vars

\* InitActive is a state the program reaches: SpecOne reaches ActiveState
ActiveState ==
      (/\ upstream = {IdPlain}
       /\ idle[1] = 0
       /\ active_users[IdPlain] = 1
       /\ nsess = 1
       /\ vu[1] = [identity |-> IdPlain, username |-> Sanitize(IdPlain),
                   message |-> "hello", irc_socket |-> TRUE, active |-> TRUE]
       /\ sock[1] = [created |-> TRUE, connected |-> TRUE, closes |-> 0,
                     wire |-> Handshake(Sanitize(IdPlain), "hello", 1)]
       /\ pc[Router] = "idle" /\ pc[1] = "w_sleep"
       /\ wd[1] = [due |-> FALSE, started |-> 1]
       /\ rt = NoCall
       /\ dno = 1
       /\ cleanups[1] = [begun |-> 0, ended |-> 0, lapped |-> FALSE])

\* ---------------------------------------------------------------- claims
\* a socket that was connected and that nobody closed
Live(s) == sock[s].connected /\ sock[s].closes = 0

\* C1: two distinct identities with the same sanitized session name never have
\* two different live sessions registered at once: the second identity is
\* routed through the session of the first, or fails.
C1_OneLiveSessionPerKey ==
    \A u1, u2 \in Identities :
        (/\ u1 # u2
         /\ Sanitize(u1) = Sanitize(u2)
         /\ Routable(u1) /\ Live(active_users[u1])
         /\ Routable(u2) /\ Live(active_users[u2]))
        => active_users[u1] = active_users[u2]

\* C2: of the sessions constructed for one identity at most one has a live
\* transport at any time: a replacement's transport is never open while the
\* previous one is unclosed.
C2_OneLiveTransportPerIdentity ==
    \A s1, s2 \in Sessions :
        (s1 # s2 /\ vu[s1].identity = vu[s2].identity /\ Live(s1)) => ~ Live(s2)

\* C3: every socket a session created is closed exactly once: never twice,
\* and once the session has dropped its handle the socket has been closed.
C3_ClosedExactlyOnce ==
    \A s \in Sessions :
        /\ sock[s].closes <= 1
        /\ (sock[s].created /\ ~ vu[s].irc_socket) => sock[s].closes = 1

\* C4: after two _cleanup calls made one after the other on a session, exactly
\* one QUIT is on its wire and its socket was closed exactly once.
C4_CleanupTwiceOneTeardown ==
    \A s \in Sessions :
        (cleanups[s].ended >= 2 /\ ~ cleanups[s].lapped)
        => (Len(Quits(s)) = 1 /\ sock[s].closes = 1)

\* C5: when the event ends as failed because connect was refused, the
\* registry holds no entry for the identity, the session's handle is None and
\* no monitor was started for it.
C5_RefusedLeavesNothing ==
    (/\ pc[Router] = "rate_limit"
     /\ rt.result = "failed"
     /\ sock[rt.user].created /\ ~ sock[rt.user].connected)
    => (/\ active_users[rt.username] = 0
        /\ ~ vu[rt.user].irc_socket
        /\ wd[rt.user].started = 0
        /\ pc[rt.user] = "off")

\* C6: once the monitor of a session has timed out, sent QUIT, closed the
\* socket and finished, the session is no longer in the registry.
C6_TimedOutLeavesRegistry ==
    \A s \in Sessions :
        (pc[s] = "done" /\ Len(Quits(s)) = 1 /\ sock[s].closes = 1)
        => (\A u \in Identities : active_users[u] # s)

\* C7: the first event after the one that created a session, arriving less
\* than the threshold after it and with no socket call raising, is delivered
\* as a PRIVMSG on that session's socket: no socket is created for it and no
\* NICK, USER or JOIN is sent for it.
C7_SecondEventReuses ==
    (pc[Router] = "rate_limit" /\ rt.second /\ ~ rt.raised)
    => (/\ rt.result = "delivered"
        /\ rt.opens = 0
        /\ rt.user = active_users[rt.username]
        /\ Len(Privmsgs(rt.user)) = 2
        /\ Privmsgs(rt.user)[2] = Line("PRIVMSG", rt.message, dno)
        /\ \A s \in Sessions : \A i \in DOMAIN sock[s].wire :
               sock[s].wire[i].d = dno => (s = rt.user /\ IsPrivmsg(sock[s].wire[i])))

C7_Witness ==
    /\ pc[Router] = "rate_limit" /\ rt.second /\ ~ rt.raised
    /\ rt.result = "delivered"
    /\ idle[rt.user] = 0

\* C8: a monitor poll that finds now - last_activity below the threshold, one
\* poll interval below it included, leaves the session as it is and the
\* monitor asleep; a poll that finds the threshold reached starts _cleanup.
C8_PollBoundary ==
    [][\A s \in Sessions :
          (pc[s] = "w_sleep" /\ wd[s].due /\ ~ wd'[s].due)
          => IF idle[s] >= InactivePolls
                THEN pc'[s] = "c_test"
                ELSE /\ pc'[s] = "w_sleep"
                     /\ vu'[s] = vu[s]
                     /\ sock'[s] = sock[s]
                     /\ active_users' = active_users]_vars

C8_Witness ==
    \E s \in Sessions :
        /\ pc[s] = "c_test" /\ idle[s] = InactivePolls
        /\ vu[s].active /\ active_users[vu[s].identity] = s

\* C9: every successful send on the reuse path appends exactly one PRIVMSG,
\* with the text of its event, to the session's wire; no PRIVMSG gets on a
\* wire otherwise but the one of the handshake; wires only grow, so the
\* PRIVMSGs are in the order of the events; last_activity never decreases.
C9_ReuseSendsInOrder ==
    [][\A s \in Sessions :
          LET old == sock[s].wire
              new == sock'[s].wire
              reused == pc[Router] = "reuse_send" /\ pc'[Router] = "reuse_touch"
                        /\ rt.user = s
              shaken == pc[Router] = "s_privmsg" /\ pc'[Router] = "s_touch"
                        /\ rt.user = s
          IN /\ Len(new) >= Len(old) /\ SubSeq(new, 1, Len(old)) = old
             /\ reused => new = Append(old, Line("PRIVMSG", rt.message, dno))
             /\ Len(SelectSeq(new, IsPrivmsg)) # Len(SelectSeq(old, IsPrivmsg))
                => (reused \/ shaken)
             /\ \A i, j \in DOMAIN new :
                   (i < j /\ IsPrivmsg(new[i]) /\ IsPrivmsg(new[j]))
                   => new[i].d < new[j].d
             /\ (Tick \/ idle'[s] <= idle[s])]_vars

C9_Witness ==
    \E s \in Sessions :
        /\ Len(Privmsgs(s)) = 3
        /\ Privmsgs(s)[2].arg # Privmsgs(s)[3].arg
        /\ pc[Router] = "rate_limit" /\ rt.result = "delivered"

\* C10: an identity whose sanitized form is the gateway's own name, whatever
\* the case of its letters, is dropped: no session is constructed for it, the
\* registry gets no entry for it, and the handler returns at once.
C10_OwnNameDropped ==
    \A u \in Identities :
        Lower(Sanitize(u)) = OwnName
        => (/\ active_users[u] = 0
            /\ \A s \in Sessions : vu[s].identity # u
            /\ rt.username = u
               => (pc[Router] = "idle" /\ rt.result = "dropped" /\ rt.opens = 0))

\* C11: a dispatch whose reuse send raised has, when it reaches the rate-limit
\* wait, run _cleanup on the old session (handle dropped, flag cleared),
\* removed its registry entry, and constructed exactly one replacement with
\* the same identity and message on exactly one new socket; it ends as
\* delivered by the replacement, which is then registered, or as failed with
\* no entry; and no dispatch ever creates more than one socket.
C11_OneShotRetry ==
    /\ rt.opens <= 1
    /\ (pc[Router] = "rate_limit" /\ rt.old # 0)
       => (/\ cleanups[rt.old].ended >= 1
           /\ ~ vu[rt.old].active /\ ~ vu[rt.old].irc_socket
           /\ \A u \in Identities : active_users[u] # rt.old
           /\ rt.opens = 1
           /\ rt.user # rt.old
           /\ vu[rt.user].identity = rt.username
           /\ vu[rt.user].message = rt.message
           /\ \A s \in Sessions :
                  (s # rt.old /\ s # rt.user) => \A i \in DOMAIN sock[s].wire :
                                                   sock[s].wire[i].d # dno
           /\ rt.result \in {"delivered_new", "failed"}
           /\ rt.result = "failed" => active_users[rt.username] = 0
           /\ rt.result = "delivered_new" => active_users[rt.username] = rt.user)

C11_Witness ==
    /\ pc[Router] = "rate_limit" /\ rt.old # 0
    /\ rt.result = "failed"
    /\ sock[rt.user].created /\ ~ sock[rt.user].connected

\* C12: for an identity without any word character (its sanitized name is
\* empty) no session is constructed, no socket is created, no NICK or USER
\* with an empty name is sent, and the registry gets no entry.
C12_EmptyKeyRejected ==
    \A u \in Identities :
        Sanitize(u) = <<>>
        => (/\ active_users[u] = 0
            /\ \A s \in Sessions :
                   vu[s].identity = u
                   => (/\ ~ sock[s].created
                       /\ \A i \in DOMAIN sock[s].wire :
                              sock[s].wire[i].cmd \in {"NICK", "USER"}
                              => sock[s].wire[i].arg # <<>>))

\* C13: the handler returns from an event it did not drop only through the
\* rate-limit wait, which it enters with the outcome of the delivery attempt
\* settled; the next event is taken up only by the waiting handler; and
\* while the handler waits for an event or for the rate limit no socket is
\* created or connected and no line of an event gets on a wire.
C13_RateLimitBeforeReturn ==
    [][/\ (pc[Router] # "idle" /\ pc'[Router] = "idle")
          => (/\ pc[Router] = "rate_limit"
              /\ rt.result \in {"delivered", "delivered_new", "failed"})
       /\ (pc[Router] # "rate_limit" /\ pc'[Router] = "rate_limit")
          => rt'.result \in {"delivered", "delivered_new", "failed"}
       /\ dno' # dno
          => (/\ pc[Router] = "idle"
              /\ dno' = dno + 1
              /\ pc'[Router] # "idle" \/ rt'.result = "dropped")
       /\ pc[Router] \in {"idle", "rate_limit"}
          => \A s \in Sessions :
                /\ sock'[s].created = sock[s].created
                /\ sock'[s].connected = sock[s].connected
                /\ \A i \in DOMAIN sock'[s].wire :
                       i > Len(sock[s].wire) => sock'[s].wire[i].d = 0]_vars

C13_Witness ==
    /\ pc[Router] = "rate_limit" /\ rt.old # 0
    /\ rt.result = "delivered_new"
    /\ dno = MaxDispatch

\* C14: whenever the handler is about to look an identity up (it waits for
\* the next event), an entry that the test of line 124 accepts belongs to a
\* session whose handle is not None and whose socket is connected and not
\* closed.
C14_RoutableHasHandle ==
    \A u \in Identities :
        (pc[Router] = "idle" /\ Routable(u))
        => (vu[active_users[u]].irc_socket /\ Live(active_users[u]))

\* C15: on every wire each PRIVMSG comes after the NICK, USER and JOIN of
\* the handshake, and no PRIVMSG comes after a QUIT.
C15_PrivmsgInsideSession ==
    \A s \in Sessions :
        LET w == sock[s].wire
        IN \A j \in DOMAIN w :
              IsPrivmsg(w[j])
              => (/\ j >= 4
                  /\ w[1].cmd = "NICK" /\ w[2].cmd = "USER" /\ w[3].cmd = "JOIN"
                  /\ \A i \in 1..(j - 1) : ~ IsQuit(w[i]))

\* C16: a monitor is started at most once for a session, exactly when its
\* send() got past the handshake, and never for a session whose send()
\* failed; once a _cleanup call on a session has ended no line gets on its
\* wire any more; a monitor that has ended stays ended; and the monitor of a
\* session on which a _cleanup call has ended eventually ends (both facts
\* are stable, so from some point on every such monitor has ended).
C16_OneMonitorThatEnds ==
    /\ [](\A s \in Sessions :
             /\ wd[s].started <= 1
             /\ wd[s].started = 1 <=> pc[s] # "off"
             /\ pc[s] # "off" => (sock[s].connected /\ Len(Privmsgs(s)) >= 1))
    /\ []((pc[Router] = "rate_limit" /\ rt.result = "failed")
             => (wd[rt.user].started = 0 /\ pc[rt.user] = "off"))
    /\ []((pc[Router] = "rate_limit" /\ rt.result = "delivered_new")
             => wd[rt.user].started = 1)
    /\ [][\A s \in Sessions :
              /\ cleanups[s].ended >= 1 => sock'[s].wire = sock[s].wire
              /\ pc[s] = "done" => pc'[s] = "done"
              /\ wd'[s].started >= wd[s].started]_vars
    /\ <>[](\A s \in Sessions :
               (wd[s].started = 1 /\ cleanups[s].ended >= 1) => pc[s] = "done")

C16_Witness ==
    \E s \in Sessions :
        /\ pc[s] = "done" /\ wd[s].started = 1
        /\ cleanups[s].ended = 2 /\ ~ cleanups[s].lapped
        /\ active_users[vu[s].identity] # s

\* the lines of a wire that are not QUIT
NotQuit(l) == ~ IsQuit(l)

\* C17: the wire of every session starts with a prefix of NICK, USER, JOIN,
\* PRIVMSG (name and first message of the session, all for one event); JOIN
\* is sent only after the first wait and the PRIVMSG only after the second;
\* a registered session has the whole handshake on its wire; and when
\* send() failed the session is inactive with handle None, is in no registry
\* entry, and its wire is the handshake up to the failing step followed by
\* at most one QUIT.
C17_HandshakeOrder ==
    /\ [](\A s \in Sessions :
             LET w == sock[s].wire
                 h == Handshake(vu[s].username, vu[s].message, w[1].d)
                 n == Min(Len(w), 4)
             IN /\ w # <<>> => (SubSeq(w, 1, n) = SubSeq(h, 1, n) \/
                                 (/\ IsQuit(w[Len(w)])
                                  /\ SubSeq(w, 1, Len(w) - 1) = SubSeq(h, 1, Len(w) - 1)))
                /\ (\E u \in Identities : active_users[u] = s)
                   => (Len(w) >= 4 /\ SubSeq(w, 1, 4) = h))
    /\ []((pc[Router] = "rate_limit" /\ rt.result = "failed")
             => LET w == sock[rt.user].wire
                    k == Len(SelectSeq(w, NotQuit))
                IN /\ ~ vu[rt.user].active /\ ~ vu[rt.user].irc_socket
                   /\ \A u \in Identities : active_users[u] # rt.user
                   /\ k <= 3 /\ Len(w) <= k + 1
                   /\ SubSeq(w, 1, k)
                        = SubSeq(Handshake(vu[rt.user].username, rt.message, dno), 1, k))
    /\ [][/\ (pc[Router] # "s_join" /\ pc'[Router] = "s_join")
             => (pc[Router] = "s_settle1" /\ Len(sock[rt.user].wire) = 2)
          /\ (pc[Router] # "s_privmsg" /\ pc'[Router] = "s_privmsg")
             => (pc[Router] = "s_settle2" /\ Len(sock[rt.user].wire) = 3)
          /\ \A u \in Identities :
                (active_users'[u] # active_users[u] /\ active_users'[u] # 0)
                => (/\ pc[Router] = "register"
                    /\ Len(Privmsgs(active_users'[u])) = 1)]_vars

C17_Witness ==
    /\ pc[Router] = "rate_limit" /\ rt.result = "failed"
    /\ Len(sock[rt.user].wire) = 3
    /\ IsQuit(sock[rt.user].wire[3])

\* C18: when the monitor of a session has just sent QUIT (it is in the wait
\* of line 68 and QUIT is the last line on the wire), now - last_activity of
\* the session is at least the threshold.
C18_QuitOnlyWhenExpired ==
    \A s \in Sessions :
        (/\ pc[s] = "c_sleep"
         /\ sock[s].wire # <<>>
         /\ IsQuit(sock[s].wire[Len(sock[s].wire)]))
        => idle[s] >= InactivePolls

\* the PRIVMSG lines on all wires that were sent for event d
Deliveries(d) ==
    UNION {{<<s, i>> : i \in {j \in DOMAIN sock[s].wire :
                                 /\ IsPrivmsg(sock[s].wire[j])
                                 /\ sock[s].wire[j].d = d}} : s \in Sessions}

\* C19: at every moment at most one PRIVMSG is on the wires for any one
\* event, and it carries the text of the event; an event logged as delivered
\* (by reuse or by a new session) has exactly one; after an event logged as
\* failed the registry holds no routable session for its identity.
C19_DeliveredOnce ==
    /\ \A d \in 1..dno : Cardinality(Deliveries(d)) <= 1
    /\ \A p \in Deliveries(dno) :
           rt.username # <<>> => sock[p[1]].wire[p[2]].arg = rt.message
    /\ (pc[Router] = "rate_limit" /\ rt.result \in {"delivered", "delivered_new"})
       => Cardinality(Deliveries(dno)) = 1
    /\ (pc[Router] = "rate_limit" /\ rt.result = "failed")
       => ~ Routable(rt.username)

C19_Witness ==
    /\ pc[Router] = "rate_limit" /\ rt.result = "delivered_new"
    /\ rt.old # 0 /\ sock[rt.old].closes = 1
    /\ Deliveries(dno) = {<<rt.user, 4>>}
====
